---- MODULE Spec2Model ----
(***************************************************************************)
(* Chat-session backend: the reply heuristic (basic_ai_reply), the session *)
(* service (create_session, list_sessions) and the message service         *)
(* (list_messages, add_message) of src/main.py over the two collections    *)
(* "chatsession" and "message".                                            *)
(*                                                                         *)
(* Text is a sequence of one-character strings, so that substring, strip,  *)
(* split and case folding are computed as Python computes them.            *)
(***************************************************************************)
EXTENDS Integers, Sequences, FiniteSets, TLC

VARIABLES
    chatsession,   \* the "chatsession" collection, in insertion order
    message,       \* the "message" collection, in insertion order
    oid_counter,   \* number of identifiers the store has generated
    now,           \* the store clock: created_at of the latest document
    last,          \* the latest completed call: its arguments and response
    procs,         \* concurrent add_message requests: position and locals
    reply_in,      \* basic_ai_reply called directly: its arguments
    reply_out      \* basic_ai_reply called directly: its return value

vars == <<chatsession, message, oid_counter, now, last, procs, reply_in, reply_out>>

None == "None"

Max(S) == CHOOSE x \in S : \A y \in S : y <= x
Min(S) == CHOOSE x \in S : \A y \in S : x <= y

(***************************************************************************)
(* Python str operations used by basic_ai_reply                            *)
(***************************************************************************)
UpperChars ==
    <<"A", "B", "C", "D", "E", "F", "G", "H", "I", "J", "K", "L", "M",
      "N", "O", "P", "Q", "R", "S", "T", "U", "V", "W", "X", "Y", "Z">>

LowerChars ==
    <<"a", "b", "c", "d", "e", "f", "g", "h", "i", "j", "k", "l", "m",
      "n", "o", "p", "q", "r", "s", "t", "u", "v", "w", "x", "y", "z">>

\* str.strip() with no argument strips these
Whitespace == {" ", "\t", "\n", "\r"}

UpperSet == {UpperChars[i] : i \in DOMAIN UpperChars}

LowerSet == {LowerChars[i] : i \in DOMAIN LowerChars}

ToLower ==
    [c \in UpperSet |-> LowerChars[CHOOSE i \in DOMAIN UpperChars : UpperChars[i] = c]]

ToUpper ==
    [c \in LowerSet |-> UpperChars[CHOOSE i \in DOMAIN LowerChars : LowerChars[i] = c]]

LowerChar(c) == IF c \in UpperSet THEN ToLower[c] ELSE c

UpperChar(c) == IF c \in LowerSet THEN ToUpper[c] ELSE c

\* str.lower()
Lower(s) == [i \in 1..Len(s) |-> LowerChar(s[i])]

Upper(s) == [i \in 1..Len(s) |-> UpperChar(s[i])]

\* str.rstrip(chars)
RStrip(s, chars) ==
    LET keep == {i \in 1..Len(s) : s[i] \notin chars}
    IN  IF keep = {} THEN <<>> ELSE SubSeq(s, 1, Max(keep))

\* str.lstrip(chars)
LStrip(s, chars) ==
    LET keep == {i \in 1..Len(s) : s[i] \notin chars}
    IN  IF keep = {} THEN <<>> ELSE SubSeq(s, Min(keep), Len(s))

\* str.strip()
Strip(s) == LStrip(RStrip(s, Whitespace), Whitespace)

IsWordChar(c) == c \in LowerSet \/ c \in UpperSet

\* a whole-word match instead of a substring match
ContainsWord(sub, s) ==
    \E i \in 1..(Len(s) - Len(sub) + 1) :
        /\ SubSeq(s, i, i + Len(sub) - 1) = sub
        /\ (i = 1 \/ ~IsWordChar(s[i - 1]))
        /\ (i + Len(sub) > Len(s) \/ ~IsWordChar(s[i + Len(sub)]))

\* Python's "sub in s"
Contains(sub, s) ==
    \E i \in 1..(Len(s) - Len(sub) + 1) : SubSeq(s, i, i + Len(sub) - 1) = sub

\* str.endswith(suffix)
EndsWith(s, suffix) ==
    /\ Len(s) >= Len(suffix)
    /\ SubSeq(s, Len(s) - Len(suffix) + 1, Len(s)) = suffix

\* len(s.split()): the number of maximal runs of non-whitespace characters
NumTokens(s) ==
    Cardinality({i \in 1..Len(s) :
        s[i] \notin Whitespace /\ (i = 1 \/ s[i - 1] \in Whitespace)})

(***************************************************************************)
(* The string literals of basic_ai_reply                                   *)
(***************************************************************************)
GreetClauseHello ==
    <<"h", "e", "l", "l", "o">>

GreetClauseHi ==
    <<"h", "i">>

GreetClauseHey ==
    <<"h", "e", "y">>

HelpTrigger ==
    <<"h", "e", "l", "p">>

QuestionMark ==
    <<"?">>

ThankTrigger ==
    <<"t", "h", "a", "n", "k">>

GreetingReply ==
    <<"H", "i", "!", " ", "I", "'", "m", " ", "y", "o", "u", "r", " ", "A",
      "I", " ", "h", "e", "l", "p", "e", "r", ".", " ", "A", "s", "k", " ",
      "m", "e", " ", "a", "n", "y", "t", "h", "i", "n", "g", ",", " ", "a",
      "n", "d", " ", "I", "'", "l", "l", " ", "d", "o", " ", "m", "y", " ",
      "b", "e", "s", "t", " ", "t", "o", " ", "a", "s", "s", "i", "s", "t",
      ".">>

HelpReply ==
    <<"Y", "o", "u", " ", "c", "a", "n", " ", "a", "s", "k", " ", "m", "e",
      " ", "g", "e", "n", "e", "r", "a", "l", " ", "q", "u", "e", "s", "t",
      "i", "o", "n", "s", ".", " ", "I", "'", "l", "l", " ", "s", "t", "o",
      "r", "e", " ", "o", "u", "r", " ", "c", "o", "n", "v", "e", "r", "s",
      "a", "t", "i", "o", "n", " ", "s", "o", " ", "y", "o", "u", " ", "c",
      "a", "n", " ", "c", "o", "m", "e", " ", "b", "a", "c", "k", " ", "l",
      "a", "t", "e", "r", ".">>

QuestionPreamble ==
    <<"T", "h", "a", "t", "'", "s", " ", "a", " ", "g", "r", "e", "a", "t",
      " ", "q", "u", "e", "s", "t", "i", "o", "n", "!", " ", "H", "e", "r",
      "e", "'", "s", " ", "a", " ", "s", "i", "m", "p", "l", "e", " ", "t",
      "a", "k", "e", ":", " ">>

ThanksReply ==
    <<"Y", "o", "u", "'", "r", "e", " ", "w", "e", "l", "c", "o", "m", "e",
      "!">>

EchoPrefix ==
    <<"Y", "o", "u", " ", "s", "a", "i", "d", ":", " ", "'">>

EchoSuffix ==
    <<"'", ".", " ", "C", "o", "u", "l", "d", " ", "y", "o", "u", " ", "s",
      "h", "a", "r", "e", " ", "a", " ", "b", "i", "t", " ", "m", "o", "r",
      "e", " ", "d", "e", "t", "a", "i", "l", "?">>

FallbackPreamble ==
    <<"H", "e", "r", "e", "'", "s", " ", "w", "h", "a", "t", " ", "I", " ",
      "u", "n", "d", "e", "r", "s", "t", "o", "o", "d", ":", " ">>

FallbackSuffix ==
    <<"\n", "I", "f", " ", "y", "o", "u", " ", "w", "a", "n", "t", ",",
      " ", "I", " ", "c", "a", "n", " ", "a", "l", "s", "o", " ", "s", "u",
      "m", "m", "a", "r", "i", "z", "e", " ", "o", "r", " ", "c", "l", "a",
      "r", "i", "f", "y", " ", "s", "p", "e", "c", "i", "f", "i", "c", " ",
      "p", "a", "r", "t", "s", ".">>

Greetings == {GreetClauseHello, GreetClauseHi, GreetClauseHey}

\* the characters user_text.rstrip(" ?!") strips
QuestionStrip == {" ", "?", "!"}

\* the short-echo branch: at most this many whitespace-delimited tokens
ShortTokens == 3

EchoReply(user_text) == EchoPrefix \o user_text \o EchoSuffix

FallbackReply(user_text) == FallbackPreamble \o user_text \o FallbackSuffix

QuestionReply(user_text) == QuestionPreamble \o RStrip(user_text, QuestionStrip)

\* the help check placed before the greeting check
basic_ai_reply_help_first(user_text, history) ==
    LET text == Lower(Strip(user_text))
    IN  IF Contains(HelpTrigger, text) THEN HelpReply
        ELSE IF \E greet \in Greetings : Contains(greet, text) THEN GreetingReply
        ELSE IF EndsWith(text, QuestionMark) THEN QuestionReply(user_text)
        ELSE IF Contains(ThankTrigger, text) THEN ThanksReply
        ELSE IF NumTokens(user_text) <= ShortTokens THEN EchoReply(user_text)
        ELSE FallbackReply(user_text)

basic_ai_reply(user_text, history) ==
    LET text == Lower(Strip(user_text))
    IN  IF \E greet \in Greetings : Contains(greet, text) THEN GreetingReply
        ELSE IF Contains(HelpTrigger, text) THEN HelpReply
        ELSE IF EndsWith(text, QuestionMark) THEN QuestionReply(user_text)
        ELSE IF Contains(ThankTrigger, text) THEN ThanksReply
        ELSE IF NumTokens(user_text) <= ShortTokens THEN EchoReply(user_text)
        ELSE FallbackReply(user_text)

(***************************************************************************)
(* Inputs of the reply heuristic                                           *)
(***************************************************************************)
ExplainText ==
    <<"P", "l", "e", "a", "s", "e", " ", "e", "x", "p", "l", "a", "i", "n",
      " ", "t", "h", "i", "s", " ", "i", "n", " ", "m", "o", "r", "e", " ",
      "d", "e", "t", "a", "i", "l", " ", "f", "o", "r", " ", "m", "e">>

WeatherText ==
    <<"W", "h", "a", "t", " ", "i", "s", " ", "t", "h", "e", " ", "w", "e",
      "a", "t", "h", "e", "r", "?">>

HelloThanksText ==
    <<"H", "e", "l", "l", "o", " ", "t", "h", "e", "r", "e", ",", " ", "t",
      "h", "a", "n", "k", "s", "!">>

OkText ==
    <<"o", "k">>

LongPlainText ==
    <<"T", "e", "l", "l", " ", "m", "e", " ", "a", " ", "s", "t", "o", "r",
      "y", " ", "a", "b", "o", "u", "t", " ", "a", " ", "d", "r", "a", "g",
      "o", "n">>

FragHi ==
    <<"h", "i">>

FragHey ==
    <<"H", "E", "Y">>

FragHello ==
    <<"H", "e", "l", "l", "o">>

FragHelp ==
    <<"H", "e", "l", "p">>

FragThank ==
    <<"t", "h", "a", "n", "k">>

FragChar ==
    <<"c">>

FragWords ==
    <<"a", " ", "b", " ", "c", " ">>

FragSpace ==
    <<" ">>

FragBang ==
    <<"!">>

FragNewline ==
    <<"\n">>

Fragments ==
    {FragHi, FragHey, FragHello, FragHelp, FragThank, FragChar, FragWords,
     FragSpace, FragBang, FragNewline, QuestionMark, OkText}

\* texts are concatenations of at most this many fragments
MaxFrags == 3

RECURSIVE Concats(_)
Concats(n) ==
    IF n = 0 THEN {<<>>}
    ELSE LET shorter == Concats(n - 1)
         IN  shorter \cup {t \o f : t \in shorter, f \in Fragments}

SampleTexts == {ExplainText, WeatherText, HelloThanksText, OkText, LongPlainText}

ReplyTexts == Concats(MaxFrags) \cup SampleTexts

ReplyHistories ==
    {<<>>, <<[role |-> "user", content |-> HelloThanksText]>>}

(***************************************************************************)
(* Identifiers: bson ObjectId, 24 hexadecimal characters in text form.     *)
(* An ObjectId value is its sequence of 4-bit digits.                      *)
(***************************************************************************)
OidLen == 24

HexDigits ==
    <<"0", "1", "2", "3", "4", "5", "6", "7", "8", "9",
      "a", "b", "c", "d", "e", "f">>

HexSet == {HexDigits[i] : i \in DOMAIN HexDigits}

HexValueOf ==
    [c \in HexSet |-> (CHOOSE i \in DOMAIN HexDigits : HexDigits[i] = c) - 1]

IsHex(c) == LowerChar(c) \in HexSet

HexValue(c) == HexValueOf[LowerChar(c)]

\* ObjectId(text) raises InvalidId unless this holds
ObjectIdValid(text) == Len(text) = OidLen /\ \A i \in 1..Len(text) : IsHex(text[i])

\* ObjectId(text): upper and lower case digits denote the same value
ObjectId(text) == [i \in 1..OidLen |-> HexValue(text[i])]

\* str(oid): always lower case
OidStr(oid) == [i \in 1..Len(oid) |-> HexDigits[oid[i] + 1]]

\* the timestamp and per-process part of the identifiers this store generates
OidPrefix == <<6, 5, 4, 10, 1, 11, 2, 12, 3, 13, 4, 14, 5, 15, 0, 9, 8, 7>>

\* the n-th identifier generated: the prefix, then the counter in base 16
NewOid(n) ==
    LET w == OidLen - Len(OidPrefix)
    IN  OidPrefix \o [i \in 1..w |-> (n \div (16 ^ (w - i))) % 16]

(***************************************************************************)
(* The document store: create_document, find / sort / limit                *)
(***************************************************************************)
\* create_document: the model's fields, the generated _id and created_at;
\* the collection with the last document overwritten instead of appended to
InsertOverwriting(collection, fields, n, t) ==
    LET doc == fields @@ [_id |-> NewOid(n), created_at |-> t]
    IN  IF collection = <<>> THEN <<doc>>
        ELSE [collection EXCEPT ![Len(collection)] = doc]

InsertOne(collection, fields, n, t) ==
    Append(collection, fields @@ [_id |-> NewOid(n), created_at |-> t])

Range(q) == {q[i] : i \in DOMAIN q}

\* cursor.sort("created_at", direction): direction 1 ascending, -1 descending
RECURSIVE SortDocs(_, _)
SortDocs(docs, direction) ==
    IF docs = {} THEN <<>>
    ELSE LET first == CHOOSE x \in docs : \A y \in docs :
                          direction * x.created_at <= direction * y.created_at
         IN  <<first>> \o SortDocs(docs \ {first}, direction)

\* cursor.limit(n), n >= 1
Limit(q, n) == SubSeq(q, 1, IF n < Len(q) THEN n ELSE Len(q))

\* serialize_doc: "_id" becomes "id" in text form, other fields are kept
serialize_doc(doc) ==
    [k \in (DOMAIN doc \ {"_id"}) \cup {"id"} |->
        IF k = "id" THEN OidStr(doc._id) ELSE doc[k]]

SerializeAll(q) == [i \in 1..Len(q) |-> serialize_doc(q[i])]

(***************************************************************************)
(* Request values                                                          *)
(***************************************************************************)
\* Python's None where a text is optional: a one-element sequence that no
\* text equals, since the elements of a text are single characters
NoText == <<None>>

\* Python truthiness of an Optional[str]
Truthy(x) == x # NoText /\ x # <<>>

NewChat ==
    <<"N", "e", "w", " ", "C", "h", "a", "t">>

TitleText ==
    <<"T", "r", "i", "p">>

PromptText ==
    <<"B", "e", " ", "b", "r", "i", "e", "f">>

SessionNotFoundDetail ==
    <<"S", "e", "s", "s", "i", "o", "n", " ", "n", "o", "t", " ", "f", "o",
      "u", "n", "d">>

InvalidIdDetail ==
    <<"I", "n", "v", "a", "l", "i", "d", " ", "s", "e", "s", "s", "i", "o",
      "n", " ", "i", "d">>

\* the latest call: every field is present whatever the operation; fault is
\* the store write that failed during the call, if one did
NoCall ==
    [op |-> "none", status |-> 0, title |-> NoText, system_prompt |-> NoText,
     session_id |-> <<>>, limit |-> 0, content |-> <<>>, fault |-> "none",
     history |-> <<>>, body |-> <<>>]

Faults == {"none", "first_write", "second_write"}

(***************************************************************************)
(* Session service                                                         *)
(***************************************************************************)
\* a system message seeded whenever a prompt is given, the empty one included
SeedsWhenGiven(system_prompt) == system_prompt # NoText

\* `if body.system_prompt:` -- whether create_session seeds a system message
SeedsSystemMessage(system_prompt) == Truthy(system_prompt)

\* POST /chat/session
create_session(title, system_prompt, user_id, fault) ==
    LET session == [title |-> IF Truthy(title) THEN title ELSE NewChat,
                    user_id |-> user_id, system_prompt |-> system_prompt]
        session_id == OidStr(NewOid(oid_counter))
        seed == [session_id |-> session_id, role |-> "system",
                 content |-> system_prompt]
        call == [NoCall EXCEPT !.op = "create_session", !.title = title,
                               !.system_prompt = system_prompt]
        created == [call EXCEPT !.status = 200,
                                !.body = [id |-> session_id, title |-> session.title]]
    IN  IF fault = "first_write"
        THEN /\ last' = [call EXCEPT !.status = 500, !.fault = fault]
             /\ UNCHANGED <<chatsession, message, oid_counter, now>>
        ELSE /\ chatsession' = InsertOne(chatsession, session, oid_counter, now + 1)
             /\ IF SeedsSystemMessage(system_prompt) /\ fault = "second_write"
                THEN /\ last' = [call EXCEPT !.status = 500, !.fault = fault]
                     /\ oid_counter' = oid_counter + 1
                     /\ now' = now + 1
                     /\ UNCHANGED message
                ELSE IF SeedsSystemMessage(system_prompt)
                THEN /\ message' = InsertOne(message, seed, oid_counter + 1, now + 2)
                     /\ oid_counter' = oid_counter + 2
                     /\ now' = now + 2
                     /\ last' = created
                ELSE /\ oid_counter' = oid_counter + 1
                     /\ now' = now + 1
                     /\ last' = created
                     /\ UNCHANGED message

CreateSession(title, system_prompt, user_id, fault) ==
    /\ create_session(title, system_prompt, user_id, fault)
    /\ UNCHANGED <<procs, reply_in, reply_out>>

\* the sort direction of list_sessions
SessionsDirection == -1

\* GET /chat/sessions
ListSessions(limit) ==
    /\ last' = [NoCall EXCEPT !.op = "list_sessions", !.limit = limit, !.status = 200,
                  !.body = SerializeAll(Limit(SortDocs(Range(chatsession),
                                                       SessionsDirection), limit))]
    /\ UNCHANGED <<chatsession, message, oid_counter, now, procs, reply_in, reply_out>>

(***************************************************************************)
(* Message service                                                         *)
(***************************************************************************)
\* what the try block of list_messages / add_message raises
RaisedInTry(session_id) ==
    IF ~ObjectIdValid(session_id) THEN "InvalidId"
    ELSE IF \A s \in Range(chatsession) : s._id # ObjectId(session_id)
    THEN "HTTPException404"
    ELSE "none"

\* no check of the session id at all
ValidateNothing(session_id) == 200

\* the try / except around the lookup: `except Exception` also catches the
\* HTTPException raised inside the try, and raises the 400 in its place
ValidateSession(session_id) ==
    IF RaisedInTry(session_id) = "none" THEN 200 ELSE 400

ErrorBody(status) ==
    [detail |-> IF status = 404 THEN SessionNotFoundDetail ELSE InvalidIdDetail]

\* db["message"].find({"session_id": session_id}): matched as text
FindMessages(collection, session_id) ==
    {m \in Range(collection) : m.session_id = session_id}

\* newest first instead of oldest first
MessagesDescending == 0 - 1

\* the sort direction of list_messages
MessagesDirection == 1

\* GET /chat/{session_id}/messages
ListMessages(session_id, limit) ==
    LET status == ValidateSession(session_id)
        call == [NoCall EXCEPT !.op = "list_messages", !.session_id = session_id,
                               !.limit = limit, !.status = status]
    IN  /\ last' = IF status # 200
                   THEN [call EXCEPT !.body = ErrorBody(status)]
                   ELSE [call EXCEPT !.body =
                            SerializeAll(Limit(SortDocs(FindMessages(message, session_id),
                                                        MessagesDirection), limit))]
        /\ UNCHANGED <<chatsession, message, oid_counter, now, procs, reply_in, reply_out>>

\* the number of messages add_message fetches as history
HistoryLimit == 20

\* the history add_message gathers from the collection
GatherHistory(collection, session_id) ==
    LET hist_docs == Limit(SortDocs(FindMessages(collection, session_id), 1), HistoryLimit)
    IN  [i \in 1..Len(hist_docs) |->
            [role |-> hist_docs[i].role, content |-> hist_docs[i].content]]

UserMessage(session_id, content) ==
    [session_id |-> session_id, role |-> "user", content |-> content]

\* the reply stored under the user's role
AssistantMessageAsUser(session_id, assistant_text) ==
    [session_id |-> session_id, role |-> "user", content |-> assistant_text]

AssistantMessage(session_id, assistant_text) ==
    [session_id |-> session_id, role |-> "assistant", content |-> assistant_text]

\* the collection after a failed assistant write, had the user message been
\* rolled back
RollBackUserWrite(before, after) == before

\* the collection after a failed assistant write: the user message stays
AfterFailedAssistantWrite(before, after) == after

\* the user message written over the latest message instead of appended
PersistReplacingLast(collection, session_id, content, n, t) ==
    InsertOverwriting(collection, UserMessage(session_id, content), n, t)

\* "Persist user message": create_document("message", Message(role="user"))
PersistUserMessage(collection, session_id, content, n, t) ==
    InsertOne(collection, UserMessage(session_id, content), n, t)

\* POST /chat/{session_id}/message
add_message(session_id, content, fault) ==
    LET status == ValidateSession(session_id)
        call == [NoCall EXCEPT !.op = "add_message", !.session_id = session_id,
                               !.content = content]
        with_user == PersistUserMessage(message, session_id, content,
                                        oid_counter, now + 1)
        history == GatherHistory(with_user, session_id)
        assistant_text == basic_ai_reply(content, history)
        msg_id == OidStr(NewOid(oid_counter + 1))
    IN  IF status # 200
        THEN /\ last' = [call EXCEPT !.status = status, !.body = ErrorBody(status)]
             /\ UNCHANGED <<chatsession, message, oid_counter, now>>
        ELSE IF fault = "first_write"
        THEN /\ last' = [call EXCEPT !.status = 500, !.fault = fault]
             /\ UNCHANGED <<chatsession, message, oid_counter, now>>
        ELSE IF fault = "second_write"
        THEN /\ message' = AfterFailedAssistantWrite(message, with_user)
             /\ oid_counter' = oid_counter + 1
             /\ now' = now + 1
             /\ last' = [call EXCEPT !.status = 500, !.fault = fault,
                                     !.history = history]
             /\ UNCHANGED chatsession
        ELSE /\ message' = InsertOne(with_user,
                                     AssistantMessage(session_id, assistant_text),
                                     oid_counter + 1, now + 2)
             /\ oid_counter' = oid_counter + 2
             /\ now' = now + 2
             /\ last' = [call EXCEPT !.status = 200, !.history = history,
                           !.body = [id |-> msg_id, role |-> "assistant",
                                     content |-> assistant_text]]
             /\ UNCHANGED chatsession

AddMessage(session_id, content, fault) ==
    /\ add_message(session_id, content, fault)
    /\ UNCHANGED <<procs, reply_in, reply_out>>

(***************************************************************************)
(* Inputs and bounds of the sequential specification                       *)
(***************************************************************************)
\* the store holds at most this many documents, sessions and messages together
MaxDocs == 4

MaxLimit == 2

Titles == {NoText}

Prompts == {NoText, <<>>, PromptText}

Contents == {OkText}

\* the contents of the turns of a long or a concurrent conversation
TurnContents == {OkText, FragHi}

Limits == 1..MaxLimit

\* a text of the right length with a character that is no hexadecimal digit
NonHexId == [i \in 1..OidLen |-> IF i = 1 THEN "g" ELSE "0"]

\* a well-formed identifier one character short
ShortId == [i \in 1..(OidLen - 1) |-> "a"]

\* session ids a client may send: those of the stored sessions in lower and
\* upper case, the next identifier the store has not generated yet, and two
\* malformed texts
SessionIdInputs ==
    {OidStr(s._id) : s \in Range(chatsession)}
        \cup {Upper(OidStr(s._id)) : s \in Range(chatsession)}
        \cup {OidStr(NewOid(oid_counter)), NonHexId, ShortId}

NoProcs == <<>>

NoReply == [user_text |-> <<>>, history |-> <<>>]

Init ==
    /\ chatsession = <<>>
    /\ message = <<>>
    /\ oid_counter = 0
    /\ now = 0
    /\ last = NoCall
    /\ procs = NoProcs
    /\ reply_in = NoReply
    /\ reply_out = NoText

NumDocs == Len(chatsession) + Len(message)

\* sessions are at most half of the documents
MaxSessions == MaxDocs \div 2

DoCreateSession ==
    \E title \in Titles, system_prompt \in Prompts, fault \in Faults :
        /\ Len(chatsession) < MaxSessions
        /\ NumDocs + (IF Truthy(system_prompt) THEN 2 ELSE 1) <= MaxDocs
        /\ CreateSession(title, system_prompt, NoText, fault)

DoListSessions == \E limit \in Limits : ListSessions(limit)

DoListMessages ==
    \E session_id \in SessionIdInputs, limit \in Limits :
        ListMessages(session_id, limit)

DoAddMessage ==
    \E session_id \in SessionIdInputs, content \in Contents, fault \in Faults :
        /\ NumDocs + 2 <= MaxDocs
        /\ AddMessage(session_id, content, fault)

Next == DoCreateSession \/ DoListSessions \/ DoListMessages \/ DoAddMessage

Spec == Init /\ [][Next]_vars

(***************************************************************************)
(* The reply heuristic on its own                                          *)
(***************************************************************************)
InitReply ==
    /\ chatsession = <<>>
    /\ message = <<>>
    /\ oid_counter = 0
    /\ now = 0
    /\ last = NoCall
    /\ procs = NoProcs
    /\ reply_in \in [user_text : ReplyTexts, history : ReplyHistories]
    /\ reply_out = NoText

CallReply ==
    /\ reply_out = NoText
    /\ reply_out' = basic_ai_reply(reply_in.user_text, reply_in.history)
    /\ UNCHANGED <<chatsession, message, oid_counter, now, last, procs, reply_in>>

NextReply == CallReply

SpecReply == InitReply /\ [][NextReply]_vars

(***************************************************************************)
(* One long conversation: a session that outgrows the history window       *)
(***************************************************************************)
\* the store may hold this many messages more than the history window
HistoryRoom == 2

HistCreateSession ==
    \E system_prompt \in {NoText, PromptText} :
        /\ Len(chatsession) < 1
        /\ CreateSession(NoText, system_prompt, NoText, "none")

HistAddMessage ==
    \E s \in Range(chatsession), content \in TurnContents :
        /\ Len(message) + 2 <= HistoryLimit + HistoryRoom
        /\ AddMessage(OidStr(s._id), content, "none")

NextHistory == HistCreateSession \/ HistAddMessage

SpecHistory == Init /\ [][NextHistory]_vars

(***************************************************************************)
(* Concurrent add_message requests: each store operation is one step       *)
(***************************************************************************)
MaxProcs == 2

ProcIds == 1..MaxProcs

\* the ids concurrent requests are sent with
ConcSessionIds ==
    {OidStr(s._id) : s \in Range(chatsession)} \cup {NonHexId}

IdleProc ==
    [pc |-> "idle", session_id |-> <<>>, content |-> <<>>, history |-> <<>>,
     assistant_text |-> <<>>, wrote |-> <<>>, status |-> 0, body |-> <<>>]

InitConc ==
    /\ chatsession = <<>>
    /\ message = <<>>
    /\ oid_counter = 0
    /\ now = 0
    /\ last = NoCall
    /\ procs = [p \in ProcIds |-> IdleProc]
    /\ reply_in = NoReply
    /\ reply_out = NoText

ConcCreateSession ==
    \E title \in {NoText, TitleText}, system_prompt \in {NoText, PromptText} :
        /\ Len(chatsession) < 1
        /\ create_session(title, system_prompt, NoText, "none")
        /\ UNCHANGED <<procs, reply_in, reply_out>>

\* the request arrives and the session lookup runs (lines 152-157)
ConcValidate(p) ==
    \E session_id \in ConcSessionIds, content \in TurnContents :
        LET status == ValidateSession(session_id)
        IN  /\ procs[p].pc = "idle"
            /\ procs' = [procs EXCEPT ![p] =
                  IF status = 200
                  THEN [IdleProc EXCEPT !.pc = "validated", !.session_id = session_id,
                                        !.content = content]
                  ELSE [IdleProc EXCEPT !.pc = "failed", !.session_id = session_id,
                                        !.content = content, !.status = status,
                                        !.body = ErrorBody(status)]]
            /\ UNCHANGED <<chatsession, message, oid_counter, now, last,
                           reply_in, reply_out>>

\* the user message is inserted (lines 160-163)
ConcWriteUser(p) ==
    /\ procs[p].pc = "validated"
    /\ message' = PersistUserMessage(message, procs[p].session_id, procs[p].content,
                                     oid_counter, now + 1)
    /\ oid_counter' = oid_counter + 1
    /\ now' = now + 1
    /\ procs' = [procs EXCEPT ![p].pc = "user_written",
                              ![p].wrote = <<Len(message) + 1>>]
    /\ UNCHANGED <<chatsession, last, reply_in, reply_out>>

\* the history is read and the reply computed (lines 166-171)
ConcGatherHistory(p) ==
    /\ procs[p].pc = "user_written"
    /\ LET history == GatherHistory(message, procs[p].session_id)
       IN  procs' = [procs EXCEPT ![p].pc = "replied",
                                  ![p].history = history,
                                  ![p].assistant_text =
                                      basic_ai_reply(procs[p].content, history)]
    /\ UNCHANGED <<chatsession, message, oid_counter, now, last, reply_in, reply_out>>

\* the assistant message is inserted and the response returned (lines 174-179)
ConcWriteAssistant(p) ==
    /\ procs[p].pc = "replied"
    /\ message' = InsertOne(message,
                            AssistantMessage(procs[p].session_id,
                                             procs[p].assistant_text),
                            oid_counter, now + 1)
    /\ oid_counter' = oid_counter + 1
    /\ now' = now + 1
    /\ procs' = [procs EXCEPT ![p].pc = "done",
                              ![p].wrote = Append(procs[p].wrote, Len(message) + 1),
                              ![p].status = 200,
                              ![p].body = [id |-> OidStr(NewOid(oid_counter)),
                                           role |-> "assistant",
                                           content |-> procs[p].assistant_text]]
    /\ UNCHANGED <<chatsession, last, reply_in, reply_out>>

NextConc ==
    \/ ConcCreateSession
    \/ \E p \in ProcIds : ConcValidate(p)
    \/ \E p \in ProcIds : ConcWriteUser(p)
    \/ \E p \in ProcIds : ConcGatherHistory(p)
    \/ \E p \in ProcIds : ConcWriteAssistant(p)

SpecConc == InitConc /\ [][NextConc]_vars

(***************************************************************************)
(* Properties                                                              *)
(***************************************************************************)
ReplyCalled == reply_out # NoText

\* w, a lower-case word, occurs in t at some position, letter case ignored
HasSubstring(t, w) ==
    \E i \in 1..Len(t) :
        /\ i + Len(w) - 1 <= Len(t)
        /\ \A k \in 1..Len(w) : LowerChar(t[i + k - 1]) = w[k]

HasGreetingSubstring(t) ==
    \E w \in {GreetClauseHello, GreetClauseHi, GreetClauseHey} : HasSubstring(t, w)

\* C2 as stated: reply("Please explain this in more detail for me", [])
\* returns the acknowledgment preamble, the original text and the
\* summarize/clarify suffix (the fallback branch).
C2_ExplainTakesFallback ==
    (ReplyCalled /\ reply_in.user_text = ExplainText /\ reply_in.history = <<>>)
        => reply_out = FallbackPreamble \o ExplainText \o FallbackSuffix

\* C2 amended: reply("Please explain this in more detail for me", [])
\* returns the fixed greeting string, because "this" contains "hi".
C2_ExplainIsGreeted ==
    (ReplyCalled /\ reply_in.user_text = ExplainText /\ reply_in.history = <<>>)
        => reply_out = GreetingReply

C2_Witness ==
    /\ ReplyCalled
    /\ reply_in.user_text = ExplainText
    /\ reply_in.history = <<>>

\* C3: every text with "hello", "hi" or "hey" as a substring, in any letter
\* case and at any position, gets the fixed greeting, whatever other trigger
\* it holds and whatever the history.
C3_GreetingWins ==
    (ReplyCalled /\ HasGreetingSubstring(reply_in.user_text))
        => reply_out = GreetingReply

\* a greeting inside a longer word, together with "help" and a trailing "?",
\* and a non-empty history
C3_Witness ==
    /\ ReplyCalled
    /\ reply_in.user_text = FragChar \o FragHi \o QuestionMark
    /\ reply_in.history # <<>>

C3_WitnessHelp ==
    /\ ReplyCalled
    /\ HasSubstring(reply_in.user_text, HelpTrigger)
    /\ HasSubstring(reply_in.user_text, GreetClauseHey)

\* the claims' own reading of a session id: 24 hexadecimal characters
WellFormedId(text) ==
    /\ Len(text) = 24
    /\ \A i \in 1..Len(text) : LowerChar(text[i]) \in
          {"0", "1", "2", "3", "4", "5", "6", "7", "8", "9",
           "a", "b", "c", "d", "e", "f"}

SessionExists(text) ==
    \E i \in 1..Len(chatsession) : OidStr(chatsession[i]._id) = Lower(text)

IsPrefix(q, r) == Len(q) <= Len(r) /\ SubSeq(r, 1, Len(q)) = q

\* C1 as stated: list_messages and add_message answer 404 (SessionNotFound)
\* to a well-formed id that names no session, and 400 (InvalidSessionId)
\* only to a malformed id.
C1_NotFoundIs404 ==
    last.op \in {"list_messages", "add_message"} =>
        /\ (WellFormedId(last.session_id) /\ ~SessionExists(last.session_id))
              => last.status = 404
        /\ last.status = 400 => ~WellFormedId(last.session_id)

\* C5: a successful create_session adds exactly one session, whose id it
\* returns; with a non-empty system_prompt it adds exactly one message, of
\* role system, with the prompt as content and the new id as session_id;
\* with an absent or empty prompt it adds no message.
C5_CreateSessionWrites ==
    [][(last'.op = "create_session" /\ last'.status = 200) =>
          /\ Len(chatsession') = Len(chatsession) + 1
          /\ IsPrefix(chatsession, chatsession')
          /\ OidStr(chatsession'[Len(chatsession')]._id) = last'.body.id
          /\ IF last'.system_prompt # NoText /\ last'.system_prompt # <<>>
             THEN /\ Len(message') = Len(message) + 1
                  /\ IsPrefix(message, message')
                  /\ message'[Len(message')].role = "system"
                  /\ message'[Len(message')].content = last'.system_prompt
                  /\ message'[Len(message')].session_id = last'.body.id
             ELSE message' = message]_vars

C5_Witness ==
    /\ last.op = "create_session"
    /\ last.status = 200
    /\ last.system_prompt = PromptText
    /\ Len(message) > 0
    /\ message[Len(message)].role = "system"

C5_WitnessEmptyPrompt ==
    /\ last.op = "create_session"
    /\ last.status = 200
    /\ last.system_prompt = <<>>

StoredUnder(session_id) ==
    {i \in 1..Len(message) : message[i].session_id = session_id}

C7_WitnessSessions ==
    /\ last.op = "list_sessions"
    /\ Len(last.body) = last.limit
    /\ Len(chatsession) > last.limit

\* C8: a stored session or message stays stored, unchanged and at its place,
\* in every later state, and the two list operations change neither
\* collection.
C8_AppendOnly ==
    [][/\ IsPrefix(chatsession, chatsession')
       /\ IsPrefix(message, message')
       /\ last'.op \in {"list_sessions", "list_messages"} =>
             (chatsession' = chatsession /\ message' = message)]_vars

\* a message written after two list calls and an earlier message
C8_Witness ==
    /\ last.op = "add_message"
    /\ last.status = 200
    /\ Len(message) > 2

\* C9: when the assistant write of add_message fails after the user write,
\* the call ends in an error, the user message is stored and nothing else
\* is: no assistant message, no rollback.
C9_NoRollback ==
    [][(/\ last'.op = "add_message"
        /\ last'.fault = "second_write"
        /\ last'.status # 400) =>
          /\ last'.status = 500
          /\ chatsession' = chatsession
          /\ Len(message') = Len(message) + 1
          /\ IsPrefix(message, message')
          /\ message'[Len(message')].role = "user"
          /\ message'[Len(message')].content = last'.content
          /\ message'[Len(message')].session_id = last'.session_id]_vars

C9_Witness ==
    /\ last.op = "add_message"
    /\ last.fault = "second_write"
    /\ last.status = 500
    /\ Len(message) > 0
    /\ message[Len(message)].role = "user"

\* the messages of the call's session when the history was read: all but
\* the assistant message the call wrote afterwards
AtFetch == Range(SubSeq(message, 1, Len(message) - 1))

MostRecent(docs, k) ==
    {m \in docs : Cardinality({x \in docs : x.created_at > m.created_at}) < k}

Oldest(docs, k) ==
    {m \in docs : Cardinality({x \in docs : x.created_at < m.created_at}) < k}

RolesAndContents(q) ==
    [i \in 1..Len(q) |-> [role |-> q[i].role, content |-> q[i].content]]

\* C4 as stated: the history add_message passes to the reply heuristic is
\* the (up to) 20 most recent messages of the session, oldest first, the
\* user message just stored being the last of them.
C4_HistoryIsMostRecent ==
    (last.op = "add_message" /\ last.status = 200) =>
        LET mine == {m \in AtFetch : m.session_id = last.session_id}
        IN  /\ last.history = RolesAndContents(SortDocs(MostRecent(mine, 20), 1))
            /\ last.history[Len(last.history)] =
                  [role |-> "user", content |-> last.content]

\* what the code passes: the (up to) 20 oldest messages of the session
C4_HistoryIsOldest ==
    (last.op = "add_message" /\ last.status = 200) =>
        LET mine == {m \in AtFetch : m.session_id = last.session_id}
        IN  last.history = RolesAndContents(SortDocs(Oldest(mine, 20), 1))

C4_LongSession ==
    /\ last.op = "add_message"
    /\ last.status = 200
    /\ Len(message) > 21

WrittenBy(p) == {procs[p].wrote[i] : i \in 1..Len(procs[p].wrote)}

\* C10: under every interleaving, a completed add_message has written one
\* user message with its content and then one assistant message with the
\* reply to that content, and returns that assistant message's id and
\* content; no request writes an assistant message before its user message,
\* and no message is written by two requests.
C10_TurnsUnderInterleaving ==
    /\ \A p \in DOMAIN procs :
          LET c == procs[p]
          IN  /\ Len(c.wrote) <= 2
              /\ \A i \in 1..Len(c.wrote) : c.wrote[i] \in 1..Len(message)
              /\ Len(c.wrote) >= 1 =>
                    /\ message[c.wrote[1]].role = "user"
                    /\ message[c.wrote[1]].content = c.content
                    /\ message[c.wrote[1]].session_id = c.session_id
              /\ Len(c.wrote) = 2 =>
                    /\ c.wrote[1] < c.wrote[2]
                    /\ message[c.wrote[2]].role = "assistant"
                    /\ message[c.wrote[2]].session_id = c.session_id
                    /\ message[c.wrote[2]].content = basic_ai_reply(c.content, <<>>)
              /\ c.pc = "done" =>
                    /\ Len(c.wrote) = 2
                    /\ c.status = 200
                    /\ c.body = [id |-> OidStr(message[c.wrote[2]]._id),
                                 role |-> "assistant",
                                 content |-> message[c.wrote[2]].content]
              /\ c.pc = "failed" => c.wrote = <<>>
    /\ \A i \in 1..Len(message) :
          message[i].role # "system" =>
             Cardinality({p \in DOMAIN procs : i \in WrittenBy(p)}) = 1

\* two completed requests on one session whose writes interleave
C10_Witness ==
    /\ DOMAIN procs = ProcIds
    /\ \A p \in ProcIds : procs[p].pc = "done"
    /\ procs[1].session_id = procs[2].session_id
    /\ procs[1].wrote[1] < procs[2].wrote[1]
    /\ procs[2].wrote[1] < procs[1].wrote[2]

====
